---- MODULE Spec2Model ----
(***************************************************************************)
(* A model of system_cleanup/cleanup.py: the file selector                 *)
(* (get_files_to_delete), the file deleter (cleanup_files), the empty      *)
(* directory pruner (cleanup_empty_dirs) and the command path (main).      *)
(*                                                                         *)
(* Strings are sequences of tokens (a name "old.tmp" is <<"old", ".tmp">>, *)
(* the extension ".log.gz" is <<".log", ".gz">>), so that str.endswith is  *)
(* a suffix test.  A path is the sequence of its components; os.path.join  *)
(* appends a component.  The filesystem is a function from the paths that  *)
(* exist to their entries.                                                 *)
(***************************************************************************)
EXTENDS Integers, Sequences, FiniteSets, TLC

VARIABLES fs,      \* the filesystem: path -> entry
          fs0,     \* the filesystem when the entry point was called
          entry,   \* which function of the module was called
          sel,     \* get_files_to_delete: arguments and locals
          del,     \* cleanup_files: arguments and locals
          prn,     \* cleanup_empty_dirs: arguments and locals
          mn       \* main: arguments and locals

vars == <<fs, fs0, entry, sel, del, prn, mn>>

Idle == [pc |-> "idle"]

(***************************************************************************)
(* Sequences                                                               *)
(***************************************************************************)
RECURSIVE Concat(_)
Concat(ss) == IF ss = <<>> THEN <<>> ELSE Head(ss) \o Concat(Tail(ss))

Range(s) == {s[k] : k \in 1..Len(s)}

\* str.endswith(suf)
EndsWith(s, suf) ==
    /\ Len(suf) <= Len(s)
    /\ SubSeq(s, Len(s) - Len(suf) + 1, Len(s)) = suf

\* The path as the string the code holds: its components joined by "/".
RECURSIVE PathStr(_)
PathStr(p) == IF p = <<>> THEN <<>> ELSE <<"/">> \o Head(p) \o PathStr(Tail(p))

\* os.path.join(root, name)
Join(root, name) == Append(root, name)

Basename(p) == p[Len(p)]
Parent(p) == SubSeq(p, 1, Len(p) - 1)
IsPrefix(a, b) == Len(a) <= Len(b) /\ SubSeq(b, 1, Len(a)) = a
\* d is a directory at or above p
AtOrBelow(p, d) == IsPrefix(d, p)

(***************************************************************************)
(* The filesystem.  An entry is a directory, a regular file or a symbolic  *)
(* link to a file; stat is what os.stat of the entry raises ("ok": none),  *)
(* rm is what os.remove / os.rmdir of it raises.                           *)
(***************************************************************************)
Kind(F, p) == IF p \in DOMAIN F THEN F[p].kind ELSE "none"

\* The entry a path names once symbolic links are followed.
Resolve(F, p) == IF Kind(F, p) = "link" THEN F[p].target ELSE p

\* os.stat(p): the exception it raises, "ok" for none.
StatOutcome(F, p) ==
    LET q == Resolve(F, p)
    IN  IF Kind(F, q) = "none" THEN "fnf" ELSE F[q].stat

\* os.path.exists, os.path.isfile, os.path.isdir: os.stat, False on OSError.
Exists(F, p) == StatOutcome(F, p) = "ok"
IsFile(F, p) == Exists(F, p) /\ Kind(F, Resolve(F, p)) = "file"
IsDir(F, p) == Exists(F, p) /\ Kind(F, Resolve(F, p)) = "dir"
\* os.path.islink: os.lstat, which does not follow the link.
IsLink(F, p) == Kind(F, p) = "link"

\* st_mtime of os.stat(p)
MTime(F, p) == F[Resolve(F, p)].mtime
\* os.path.getsize(p)
GetSize(F, p) == F[Resolve(F, p)].size

\* The order in which os.scandir lists the entries of a directory is not
\* specified; it is taken to be the order of the names in AllNames.
AllNames ==
    << <<"a", ".tmp">>, <<"l", ".tmp">>, <<"c", ".txt">>, <<"old", ".tmp">>,
       <<"d", ".tmp">>, <<"e", ".log">>, <<"f", ".cache">>, <<"k", ".bak">>,
       <<"t">>, <<"sub">>, <<"deep">>, <<"u">>, <<"x">>, <<"y">>, <<"z">>,
       <<"gone">>, <<"tmp">>, <<"var">>, <<"log">>, <<"home">>,
       <<".cache">>, <<"Downloads">>, <<"thumbnails">>, <<"mozilla">>,
       <<"google-chrome">> >>

NameIndex(n) == CHOOSE k \in 1..Len(AllNames) : AllNames[k] = n

RECURSIVE SortNames(_)
SortNames(S) ==
    IF S = {} THEN <<>>
    ELSE LET n == CHOOSE m \in S : \A o \in S : NameIndex(m) <= NameIndex(o)
         IN  <<n>> \o SortNames(S \ {n})

\* The names os.scandir(d) lists.
Entries(F, d) == {Basename(p) : p \in {q \in DOMAIN F : Len(q) = Len(d) + 1 /\ IsPrefix(d, q)}}

\* os.listdir(d)
ListDir(F, d) == SortNames(Entries(F, d))

\* os.walk's split of a listing: dirs (entry.is_dir()) and nondirs.
WalkDirNames(F, d) == SelectSeq(ListDir(F, d), LAMBDA n : Kind(F, Join(d, n)) = "dir")
WalkFileNames(F, d) == SelectSeq(ListDir(F, d), LAMBDA n : Kind(F, Join(d, n)) # "dir")

(***************************************************************************)
(* get_files_to_delete                                                     *)
(***************************************************************************)
Day == 86400

\* time.time() at the call (line 114)
current_time == 40 * Day

\* line 128, line 143: (current_time - file_stats.st_mtime) > age_seconds
IsOld(F, p, age_days) == (current_time - MTime(F, p)) > age_days * Day

\* lines 129, 144: not extensions or any(s.endswith(ext) for ext in extensions)
ExtMatch(s, extensions) ==
    \/ extensions = <<>>
    \/ \E k \in 1..Len(extensions) : EndsWith(s, extensions[k])

\* line 134: dirs[:] = [d for d in dirs if os.path.join(root, d) not in exclude_dirs]
KeptDirs(F, root, exclude_dirs) ==
    SelectSeq(WalkDirNames(F, root), LAMBDA d : Join(root, d) \notin exclude_dirs)

\* lines 132-137: the file_path values of the walk, in the order os.walk
\* (topdown=True) yields them: a directory's files, then its kept subdirectories.
RECURSIVE WalkFilePaths(_, _, _)
WalkFilePaths(F, root, exclude_dirs) ==
    LET files == WalkFileNames(F, root)
        dirs == KeptDirs(F, root, exclude_dirs)
    IN  [k \in 1..Len(files) |-> Join(root, files[k])]
        \o Concat([k \in 1..Len(dirs) |-> WalkFilePaths(F, Join(root, dirs[k]), exclude_dirs)])

\* lines 136-147: the loop body over the walk's files from index k on.  A stat that
\* raises FileNotFoundError or PermissionError is caught at line 146; any other
\* OSError leaves the walk and is caught at line 148.
RECURSIVE ScanFiles(_, _, _, _, _)
ScanFiles(F, files, k, A, acc) ==
    IF k > Len(files) THEN acc
    ELSE LET file_path == files[k] IN
         IF IsLink(F, file_path) THEN ScanFiles(F, files, k + 1, A, acc)
         ELSE IF StatOutcome(F, file_path) \in {"fnf", "perm"}
              THEN ScanFiles(F, files, k + 1, A, acc)
         ELSE IF StatOutcome(F, file_path) # "ok" THEN acc
         ELSE IF /\ IsOld(F, file_path, A.age_days)
                 /\ ExtMatch(Basename(file_path), A.extensions)
              THEN ScanFiles(F, files, k + 1, A, Append(acc, file_path))
         ELSE ScanFiles(F, files, k + 1, A, acc)

\* lines 126-130: a root that is a file
ScanFileRoot(F, path, A, acc) ==
    IF IsOld(F, path, A.age_days) /\ ExtMatch(PathStr(path), A.extensions)
    THEN Append(acc, path)
    ELSE acc

\* lines 131-149: a root that is not a file
ScanDirRoot(F, path, A, acc) ==
    ScanFiles(F, WalkFilePaths(F, path, A.exclude_dirs), 1, A, acc)

\* lines 120-149: one iteration of "for path in paths"
ScanRoot(F, path, A, acc) ==
    IF ~Exists(F, path) THEN acc
    ELSE IF IsFile(F, path) THEN ScanFileRoot(F, path, A, acc)
    ELSE ScanDirRoot(F, path, A, acc)

\* lines 100-151: the whole call
RECURSIVE ScanRoots(_, _, _, _)
ScanRoots(F, A, i, acc) ==
    IF i > Len(A.paths) THEN acc
    ELSE ScanRoots(F, A, i + 1, ScanRoot(F, A.paths[i], A, acc))

get_files_to_delete(F, paths, age_days, extensions, exclude_dirs) ==
    ScanRoots(F, [paths |-> paths, age_days |-> age_days, extensions |-> extensions,
                  exclude_dirs |-> exclude_dirs], 1, <<>>)

SelArgs == [paths |-> sel.paths, age_days |-> sel.age_days,
            extensions |-> sel.extensions, exclude_dirs |-> sel.exclude_dirs]

\* lines 121-123
SelectMissingRoot ==
    /\ sel.pc = "scan"
    /\ sel.i <= Len(sel.paths)
    /\ ~Exists(fs, sel.paths[sel.i])
    /\ sel' = [sel EXCEPT !.i = @ + 1]
    /\ UNCHANGED <<fs, fs0, entry, del, prn, mn>>

\* lines 126-130
SelectFileRoot ==
    /\ sel.pc = "scan"
    /\ sel.i <= Len(sel.paths)
    /\ Exists(fs, sel.paths[sel.i])
    /\ IsFile(fs, sel.paths[sel.i])
    /\ sel' = [sel EXCEPT !.i = @ + 1,
                          !.files_to_delete =
                              ScanFileRoot(fs, sel.paths[sel.i], SelArgs, @)]
    /\ UNCHANGED <<fs, fs0, entry, del, prn, mn>>

\* lines 131-149
SelectWalkRoot ==
    /\ sel.pc = "scan"
    /\ sel.i <= Len(sel.paths)
    /\ Exists(fs, sel.paths[sel.i])
    /\ ~IsFile(fs, sel.paths[sel.i])
    /\ sel' = [sel EXCEPT !.i = @ + 1,
                          !.files_to_delete =
                              ScanDirRoot(fs, sel.paths[sel.i], SelArgs, @)]
    /\ UNCHANGED <<fs, fs0, entry, del, prn, mn>>

\* line 151
SelectReturn ==
    /\ sel.pc = "scan"
    /\ sel.i > Len(sel.paths)
    /\ sel' = [sel EXCEPT !.pc = "done"]
    /\ UNCHANGED <<fs, fs0, entry, del, prn, mn>>

NextSelect == SelectMissingRoot \/ SelectFileRoot \/ SelectWalkRoot \/ SelectReturn

(***************************************************************************)
(* The calls of get_files_to_delete that are explored: a tree t/ with the  *)
(* files a.tmp, c.txt and the link l.tmp -> a.tmp, t/sub/ with old.tmp,    *)
(* t/sub/deep/ with d.tmp; every modification time just over, exactly at   *)
(* and under the age threshold; at most one file whose stat raises.        *)
(***************************************************************************)
MaxSelRoots == 2

DefaultAge == 7

Dt == << <<"t">> >>
DSub == Join(Dt, <<"sub">>)
DDeep == Join(DSub, <<"deep">>)
Fa == Join(Dt, <<"a", ".tmp">>)
Fc == Join(Dt, <<"c", ".txt">>)
Fl == Join(Dt, <<"l", ".tmp">>)
Fold == Join(DSub, <<"old", ".tmp">>)
Fd == Join(DDeep, <<"d", ".tmp">>)
Gone == << <<"gone">> >>

DirEntry == [kind |-> "dir", mtime |-> 0, size |-> 0, stat |-> "ok", rm |-> "ok",
             target |-> <<>>]
FileEntry(m, s, st, r) == [kind |-> "file", mtime |-> m, size |-> s, stat |-> st,
                           rm |-> r, target |-> <<>>]
LinkEntry(t) == [kind |-> "link", mtime |-> 0, size |-> 0, stat |-> "ok", rm |-> "ok",
                 target |-> t]

StatOutcomes == {"ok", "fnf", "perm", "oserr"}

MTimes == {current_time - DefaultAge * Day - 1, current_time - DefaultAge * Day,
           current_time - Day}

SelLayout(ma, mc, mo, bad, err) ==
    LET st(p) == IF p = bad THEN err ELSE "ok"
    IN  (Dt :> DirEntry) @@ (DSub :> DirEntry) @@ (DDeep :> DirEntry)
        @@ (Fa :> FileEntry(ma, 1, st(Fa), "ok"))
        @@ (Fc :> FileEntry(mc, 1, st(Fc), "ok"))
        @@ (Fl :> LinkEntry(Fa))
        @@ (Fold :> FileEntry(mo, 1, st(Fold), "ok"))
        @@ (Fd :> FileEntry(current_time - 30 * Day, 1, "ok", "ok"))

SelLayouts == {SelLayout(ma, mc, mo, bad, err) :
                  ma \in MTimes, mc \in MTimes, mo \in MTimes,
                  bad \in {Fa, Fc, Fold}, err \in StatOutcomes}

SelRoots == {Dt, DSub, Fa, Fl, Gone}
SelPathLists == UNION {[1..n -> SelRoots] : n \in 1..MaxSelRoots}
SelAges == {1, DefaultAge}
SelExtensions == {<<>>, << <<".tmp">> >>, << <<".txt">>, <<".tmp">> >>}
SelExcludes == {{}, {Dt}, {DSub}, {DDeep}}

InitSelect ==
    /\ fs \in SelLayouts
    /\ fs0 = fs
    /\ entry = "get_files_to_delete"
    /\ sel \in [pc : {"scan"}, paths : SelPathLists, age_days : SelAges,
                extensions : SelExtensions, exclude_dirs : SelExcludes,
                i : {1}, files_to_delete : {<<>>}]
    /\ del = Idle
    /\ prn = Idle
    /\ mn = Idle

SpecSelect == InitSelect /\ [][NextSelect]_vars

(***************************************************************************)
(* Claims about get_files_to_delete                                        *)
(***************************************************************************)
SelDone == entry = "get_files_to_delete" /\ sel.pc = "done"
SelResult == Range(sel.files_to_delete)

RegularFiles == {p \in DOMAIN fs : fs[p].kind = "file"}
UnderExcluded(p) == \E d \in sel.exclude_dirs : AtOrBelow(p, d)
\* f is the root itself or lies in the tree below it
ReachableFrom(root, f) == Exists(fs, root) /\ ~IsLink(fs, root) /\ IsPrefix(root, f)
\* the age and extension predicate of the claim
Qualifies(f) ==
    /\ (current_time - fs[f].mtime) > sel.age_days * Day
    /\ \/ sel.extensions = <<>>
       \/ \E k \in 1..Len(sel.extensions) : EndsWith(Basename(f), sel.extensions[k])

\* No stat of the layout raises an OSError other than FileNotFoundError and
\* PermissionError.
NoOtherOSError == \A p \in DOMAIN fs : fs[p].stat # "oserr"

\* C1: once get_files_to_delete has returned, every regular file reachable from a
\* root, not under an excluded directory and whose stat succeeds, is in the result
\* if and only if it is strictly older than age_days and its name matches the
\* extensions (or the list is empty).
C1_SelectsExactlyQualifying ==
    SelDone =>
        \A k \in 1..Len(sel.paths) : \A f \in RegularFiles :
            (ReachableFrom(sel.paths[k], f) /\ ~UnderExcluded(f) /\ fs[f].stat = "ok")
                => (f \in SelResult <=> Qualifies(f))

\* C1 where no stat raises an OSError other than the two the walk catches: the
\* predicate decides the result.
C1_WithoutOtherOSError == NoOtherOSError => C1_SelectsExactlyQualifying

\* C2: get_files_to_delete never returns a symbolic link.
C2_NoSymlinkReturned ==
    SelDone => \A p \in SelResult : ~IsLink(fs, p)

\* C2 for the links met during a walk: a returned link is an entry of paths.
C2_WalkSkipsLinks ==
    SelDone => \A p \in SelResult : IsLink(fs, p) => p \in Range(sel.paths)

\* C3: get_files_to_delete returns no file at or below an excluded directory.
C3_NothingBelowExcluded ==
    SelDone => \A p \in SelResult : ~UnderExcluded(p)

\* C3 for an excluded directory strictly below every root that reaches it: a file
\* returned from under an excluded directory d comes from a root at or below d.
C3_ExcludedBelowRoot ==
    SelDone =>
        \A p \in SelResult : \A d \in sel.exclude_dirs :
            AtOrBelow(p, d) => \E k \in 1..Len(sel.paths) :
                                   AtOrBelow(sel.paths[k], d) /\ IsPrefix(sel.paths[k], p)

\* C10: a file whose stat fails is skipped and every other file of the walk of the
\* same root, and of every later root, is still tested: every regular file that a
\* walked root's traversal meets and whose stat succeeds is in the result if and
\* only if it qualifies.
C10_FailuresAreLocal ==
    SelDone =>
        \A k \in 1..Len(sel.paths) :
            (Exists(fs, sel.paths[k]) /\ ~IsFile(fs, sel.paths[k])) =>
                \A f \in Range(WalkFilePaths(fs, sel.paths[k], sel.exclude_dirs)) :
                    (~IsLink(fs, f) /\ StatOutcome(fs, f) = "ok")
                        => (f \in SelResult <=> Qualifies(f))

\* C10 where the failing stat raises FileNotFoundError or PermissionError.
C10_CaughtFailuresAreLocal == NoOtherOSError => C10_FailuresAreLocal

\* C10, the roots: a missing root adds nothing and a later root that is a file is
\* still tested.
C10_MissingRootSkipped ==
    SelDone =>
        \A k \in 1..Len(sel.paths) :
            /\ ~Exists(fs, sel.paths[k]) => sel.paths[k] \notin SelResult
            /\ IsFile(fs, sel.paths[k]) /\ ~IsLink(fs, sel.paths[k])
                   => (sel.paths[k] \in SelResult <=> Qualifies(sel.paths[k]))

(***************************************************************************)
(* cleanup_files                                                           *)
(***************************************************************************)
\* os.remove(p): the exception it raises, "ok" for none.  The link itself is
\* removed, never its target; a directory raises IsADirectoryError.
RemoveOutcome(F, p) ==
    IF Kind(F, p) = "none" THEN "fnf"
    ELSE IF Kind(F, p) = "dir" THEN "oserr"
    ELSE F[p].rm

\* The filesystem without the entry p (a successful os.remove or os.rmdir).
Unlink(F, p) == [q \in DOMAIN F \ {p} |-> F[q]]

\* DeleteOne with the dry_run test of line 171 lost: the file is removed in
\* preview mode too.
DeleteOneIgnoringDryRun(st, file_path, dry_run) ==
    IF StatOutcome(st.fs, file_path) # "ok" THEN st
    ELSE IF RemoveOutcome(st.fs, file_path) # "ok" THEN st
    ELSE [fs |-> Unlink(st.fs, file_path),
          deleted_count |-> st.deleted_count + 1,
          total_size_freed |-> st.total_size_freed + GetSize(st.fs, file_path),
          removed |-> Append(st.removed, file_path)]

\* DeleteOne with lines 176-177 moved before the removal of line 174: a refused
\* removal is counted.
DeleteOneCountingRefusals(st, file_path, dry_run) ==
    IF StatOutcome(st.fs, file_path) # "ok" THEN st
    ELSE IF dry_run THEN st
    ELSE IF RemoveOutcome(st.fs, file_path) # "ok"
         THEN [st EXCEPT !.deleted_count = @ + 1,
                         !.total_size_freed = @ + GetSize(st.fs, file_path)]
    ELSE [fs |-> Unlink(st.fs, file_path),
          deleted_count |-> st.deleted_count + 1,
          total_size_freed |-> st.total_size_freed + GetSize(st.fs, file_path),
          removed |-> Append(st.removed, file_path)]

\* lines 169-179: the loop body for one candidate.  st holds the filesystem, the
\* two counters of the call and the paths this call removed.
DeleteOne(st, file_path, dry_run) ==
    IF StatOutcome(st.fs, file_path) # "ok" THEN st                 \* line 170 raises
    ELSE LET file_size == GetSize(st.fs, file_path) IN
         IF dry_run THEN st                                         \* line 172
         ELSE IF RemoveOutcome(st.fs, file_path) # "ok" THEN st     \* line 174 raises
         ELSE [fs |-> Unlink(st.fs, file_path),
               deleted_count |-> st.deleted_count + 1,
               total_size_freed |-> st.total_size_freed + file_size,
               removed |-> Append(st.removed, file_path)]

\* lines 165-181
RECURSIVE DeleteFrom(_, _, _, _)
DeleteFrom(st, files_list, k, dry_run) ==
    IF k > Len(files_list) THEN st
    ELSE DeleteFrom(DeleteOne(st, files_list[k], dry_run), files_list, k + 1, dry_run)

cleanup_files(F, files_list, dry_run) ==
    DeleteFrom([fs |-> F, deleted_count |-> 0, total_size_freed |-> 0, removed |-> <<>>],
               files_list, 1, dry_run)

DelState == [fs |-> fs, deleted_count |-> del.deleted_count,
             total_size_freed |-> del.total_size_freed, removed |-> del.removed]

DelCandidate == del.files_list[del.k]

DelAdvance(st) ==
    /\ fs' = st.fs
    /\ del' = [del EXCEPT !.k = @ + 1,
                          !.deleted_count = st.deleted_count,
                          !.total_size_freed = st.total_size_freed,
                          !.removed = st.removed]
    /\ UNCHANGED <<fs0, entry, sel, prn, mn>>

\* line 170 raises, line 178 catches
DeleteSizeFails ==
    /\ del.pc = "loop"
    /\ del.k <= Len(del.files_list)
    /\ StatOutcome(fs, DelCandidate) # "ok"
    /\ DelAdvance(DeleteOne(DelState, DelCandidate, del.dry_run))

\* lines 171-172
DeletePreview ==
    /\ del.pc = "loop"
    /\ del.k <= Len(del.files_list)
    /\ StatOutcome(fs, DelCandidate) = "ok"
    /\ del.dry_run
    /\ DelAdvance(DeleteOne(DelState, DelCandidate, del.dry_run))

\* line 174 raises, line 178 catches
DeleteRemoveFails ==
    /\ del.pc = "loop"
    /\ del.k <= Len(del.files_list)
    /\ StatOutcome(fs, DelCandidate) = "ok"
    /\ ~del.dry_run
    /\ RemoveOutcome(fs, DelCandidate) # "ok"
    /\ DelAdvance(DeleteOne(DelState, DelCandidate, del.dry_run))

\* lines 174-177
DeleteRemove ==
    /\ del.pc = "loop"
    /\ del.k <= Len(del.files_list)
    /\ StatOutcome(fs, DelCandidate) = "ok"
    /\ ~del.dry_run
    /\ RemoveOutcome(fs, DelCandidate) = "ok"
    /\ DelAdvance(DeleteOne(DelState, DelCandidate, del.dry_run))

\* line 181
DeleteReturn ==
    /\ del.pc = "loop"
    /\ del.k > Len(del.files_list)
    /\ del' = [del EXCEPT !.pc = "done"]
    /\ UNCHANGED <<fs, fs0, entry, sel, prn, mn>>

NextDelete ==
    DeleteSizeFails \/ DeletePreview \/ DeleteRemoveFails \/ DeleteRemove \/ DeleteReturn

(***************************************************************************)
(* The calls of cleanup_files that are explored: candidate lists over two  *)
(* files, a link to the first and a path that does not exist; every size;  *)
(* removals and size reads that the OS refuses.                            *)
(***************************************************************************)
MaxFiles == 3
MaxSize == 2

DelLayout(sa, ra, sc, rc, tc) ==
    (Dt :> DirEntry)
    @@ (Fa :> FileEntry(current_time, sa, "ok", ra))
    @@ (Fc :> FileEntry(current_time, sc, tc, rc))
    @@ (Fl :> LinkEntry(Fa))

DelLayouts == {DelLayout(sa, ra, sc, rc, tc) :
                  sa \in 0..MaxSize, ra \in {"ok", "perm"},
                  sc \in 0..MaxSize, rc \in {"ok", "oserr"}, tc \in {"ok", "perm"}}

DelCandidates == {Fa, Fc, Fl, Gone}
DelLists == UNION {[1..n -> DelCandidates] : n \in 0..MaxFiles}

InitDelete ==
    /\ fs \in DelLayouts
    /\ fs0 = fs
    /\ entry = "cleanup_files"
    /\ del \in [pc : {"loop"}, files_list : DelLists, dry_run : BOOLEAN, k : {1},
                deleted_count : {0}, total_size_freed : {0}, removed : {<<>>}]
    /\ sel = Idle
    /\ prn = Idle
    /\ mn = Idle

SpecDelete == InitDelete /\ [][NextDelete]_vars

(***************************************************************************)
(* Claims about cleanup_files                                              *)
(***************************************************************************)
DelDone == entry = "cleanup_files" /\ del.pc = "done"
Distinct(s) == \A j, k \in 1..Len(s) : j # k => s[j] # s[k]
\* the entries that were there at the call and are gone now
Gone0 == DOMAIN fs0 \ DOMAIN fs
\* the size os.path.getsize read for each path at the call
RECURSIVE SumRead(_)
SumRead(S) ==
    IF S = {} THEN 0
    ELSE LET p == CHOOSE q \in S : TRUE IN GetSize(fs0, p) + SumRead(S \ {p})

\* the candidate exists and its removal is not refused when the call starts
RemovableAtCall(p) == Exists(fs0, p) /\ RemoveOutcome(fs0, p) = "ok"

\* C5: a live call on N distinct paths that all exist and are removable when the
\* call starts removes exactly those N entries and returns (N, sum of their sizes).
C5_RemovesExactlyN ==
    (DelDone /\ ~del.dry_run /\ Distinct(del.files_list)
       /\ \A p \in Range(del.files_list) : RemovableAtCall(p))
        => /\ Gone0 = Range(del.files_list)
           /\ del.deleted_count = Len(del.files_list)
           /\ del.total_size_freed = SumRead(Range(del.files_list))

\* C5 where no candidate is a symbolic link.
C5_RegularFilesOnly ==
    (\A p \in Range(del.files_list) : ~IsLink(fs0, p)) => C5_RemovesExactlyN

\* C5, the counters: after any live call deleted_count is the number of entries
\* the call removed and total_size_freed the sum of the sizes read for them.
C5_CountersMatchRemovals ==
    (DelDone /\ ~del.dry_run)
        => /\ del.deleted_count = Cardinality(Gone0)
           /\ Range(del.removed) = Gone0
           /\ del.total_size_freed = SumRead(Gone0)

\* a regular file the call can read and remove
SoundFile(p) == Kind(fs0, p) = "file" /\ fs0[p].stat = "ok" /\ fs0[p].rm = "ok"
\* a candidate whose size read or removal the OS refuses, or that is not there
Refused(p) ==
    \/ Kind(fs0, p) = "none"
    \/ Kind(fs0, p) = "file" /\ (fs0[p].stat # "ok" \/ fs0[p].rm # "ok")

\* C6: in a live call a failing candidate never aborts the batch: every candidate
\* that can be read and removed is removed wherever it stands in the list, every
\* refused candidate is left as it was and adds nothing to the count or the bytes.
C6_FailureIsLocal ==
    (DelDone /\ ~del.dry_run)
        => /\ del.k = Len(del.files_list) + 1
           /\ \A p \in Range(del.files_list) :
                 /\ SoundFile(p) => p \notin DOMAIN fs
                 /\ Refused(p) => (p \notin Gone0 /\ p \notin Range(del.removed))
           /\ del.deleted_count = Cardinality(Gone0)
           /\ del.total_size_freed = SumRead(Gone0)

\* a refused candidate stands before a removed one and after a removed one
C6_Witness ==
    /\ DelDone /\ ~del.dry_run
    /\ \E i, j, k \in 1..Len(del.files_list) :
          /\ i < j /\ j < k
          /\ del.files_list[i] \in Gone0
          /\ Refused(del.files_list[j]) /\ Kind(fs0, del.files_list[j]) = "file"
          /\ del.files_list[k] \in Gone0
          /\ del.total_size_freed > 0

\* C4, cleanup_files: in dry-run mode the filesystem never changes and both
\* counters stay 0.
C4_DeleteDryRun ==
    (entry = "cleanup_files" /\ del.dry_run)
        => fs = fs0 /\ del.deleted_count = 0 /\ del.total_size_freed = 0

(***************************************************************************)
(* cleanup_empty_dirs                                                      *)
(***************************************************************************)
\* os.rmdir(p): the exception it raises, "ok" for none.
RmdirOutcome(F, p) ==
    IF Kind(F, p) = "none" THEN "fnf"
    ELSE IF Kind(F, p) # "dir" \/ Entries(F, p) # {} THEN "oserr"
    ELSE F[p].rm

\* WalkDirPaths with topdown=True: a directory's own dirs come before the
\* subtrees of its subdirectories.
RECURSIVE WalkDirPathsTopDown(_, _)
WalkDirPathsTopDown(F, root) ==
    LET dirs == WalkDirNames(F, root)
    IN  [k \in 1..Len(dirs) |-> Join(root, dirs[k])]
        \o Concat([k \in 1..Len(dirs) |-> WalkDirPathsTopDown(F, Join(root, dirs[k]))])

\* lines 201-203: the dir_path values of os.walk(path, topdown=False), in order.
\* A directory is listed before its subdirectories are walked and yielded after
\* them: the subtrees of its subdirectories come first, then its own dirs.
RECURSIVE WalkDirPaths(_, _)
WalkDirPaths(F, root) ==
    LET dirs == WalkDirNames(F, root)
    IN  Concat([k \in 1..Len(dirs) |-> WalkDirPaths(F, Join(root, dirs[k]))])
        \o [k \in 1..Len(dirs) |-> Join(root, dirs[k])]

\* lines 204-213: the loop body for one dir_path.  st holds the filesystem, the
\* counter of the call and the directories this call removed.
PruneOne(st, dir_path, dry_run) ==
    IF StatOutcome(st.fs, dir_path) # "ok" THEN st              \* line 205 raises
    ELSE IF Len(ListDir(st.fs, dir_path)) # 0 THEN st
    ELSE IF dry_run THEN st                                     \* line 207
    ELSE IF RmdirOutcome(st.fs, dir_path) # "ok" THEN st        \* line 209 raises
    ELSE [fs |-> Unlink(st.fs, dir_path),
          deleted_count |-> st.deleted_count + 1,
          removed |-> Append(st.removed, dir_path)]

RECURSIVE PruneQueue(_, _, _)
PruneQueue(st, queue, dry_run) ==
    IF queue = <<>> THEN st
    ELSE PruneQueue(PruneOne(st, Head(queue), dry_run), Tail(queue), dry_run)

\* lines 197-213: one iteration of "for path in paths"
PruneRoot(st, path, dry_run) ==
    IF ~Exists(st.fs, path) \/ ~IsDir(st.fs, path) THEN st
    ELSE PruneQueue(st, WalkDirPaths(st.fs, path), dry_run)

\* lines 195-215
RECURSIVE PruneRoots(_, _, _, _)
PruneRoots(st, paths, i, dry_run) ==
    IF i > Len(paths) THEN st
    ELSE PruneRoots(PruneRoot(st, paths[i], dry_run), paths, i + 1, dry_run)

cleanup_empty_dirs(F, paths, dry_run) ==
    PruneRoots([fs |-> F, deleted_count |-> 0, removed |-> <<>>], paths, 1, dry_run)

PrnState == [fs |-> fs, deleted_count |-> prn.deleted_count, removed |-> prn.removed]

PrnDir == Head(prn.queue)

PrnAdvance(st) ==
    /\ fs' = st.fs
    /\ prn' = [prn EXCEPT !.queue = Tail(@),
                          !.deleted_count = st.deleted_count,
                          !.removed = st.removed]
    /\ UNCHANGED <<fs0, entry, sel, del, mn>>

\* lines 198-199
PruneSkipRoot ==
    /\ prn.pc = "roots"
    /\ prn.i <= Len(prn.paths)
    /\ ~Exists(fs, prn.paths[prn.i]) \/ ~IsDir(fs, prn.paths[prn.i])
    /\ prn' = [prn EXCEPT !.i = @ + 1]
    /\ UNCHANGED <<fs, fs0, entry, sel, del, mn>>

\* line 201: the walk of a root starts
PruneWalkRoot ==
    /\ prn.pc = "roots"
    /\ prn.i <= Len(prn.paths)
    /\ Exists(fs, prn.paths[prn.i]) /\ IsDir(fs, prn.paths[prn.i])
    /\ prn' = [prn EXCEPT !.pc = "walk",
                          !.queue = WalkDirPaths(fs, prn.paths[prn.i])]
    /\ UNCHANGED <<fs, fs0, entry, sel, del, mn>>

\* line 205: the directory has entries
PruneKeep ==
    /\ prn.pc = "walk" /\ prn.queue # <<>>
    /\ StatOutcome(fs, PrnDir) = "ok"
    /\ Len(ListDir(fs, PrnDir)) # 0
    /\ PrnAdvance(PruneOne(PrnState, PrnDir, prn.dry_run))

\* lines 206-207
PrunePreview ==
    /\ prn.pc = "walk" /\ prn.queue # <<>>
    /\ StatOutcome(fs, PrnDir) = "ok"
    /\ Len(ListDir(fs, PrnDir)) = 0
    /\ prn.dry_run
    /\ PrnAdvance(PruneOne(PrnState, PrnDir, prn.dry_run))

\* line 205 or line 209 raises, line 212 catches
PruneFails ==
    /\ prn.pc = "walk" /\ prn.queue # <<>>
    /\ \/ StatOutcome(fs, PrnDir) # "ok"
       \/ /\ Len(ListDir(fs, PrnDir)) = 0
          /\ ~prn.dry_run
          /\ RmdirOutcome(fs, PrnDir) # "ok"
    /\ PrnAdvance(PruneOne(PrnState, PrnDir, prn.dry_run))

\* lines 209-211
PruneRmdir ==
    /\ prn.pc = "walk" /\ prn.queue # <<>>
    /\ StatOutcome(fs, PrnDir) = "ok"
    /\ Len(ListDir(fs, PrnDir)) = 0
    /\ ~prn.dry_run
    /\ RmdirOutcome(fs, PrnDir) = "ok"
    /\ PrnAdvance(PruneOne(PrnState, PrnDir, prn.dry_run))

\* the walk of a root ends
PruneEndWalk ==
    /\ prn.pc = "walk" /\ prn.queue = <<>>
    /\ prn' = [prn EXCEPT !.pc = "roots", !.i = @ + 1]
    /\ UNCHANGED <<fs, fs0, entry, sel, del, mn>>

\* line 215
PruneReturn ==
    /\ prn.pc = "roots"
    /\ prn.i > Len(prn.paths)
    /\ prn' = [prn EXCEPT !.pc = "done"]
    /\ UNCHANGED <<fs, fs0, entry, sel, del, mn>>

NextPrune ==
    \/ PruneSkipRoot \/ PruneWalkRoot \/ PruneKeep \/ PrunePreview
    \/ PruneFails \/ PruneRmdir \/ PruneEndWalk \/ PruneReturn

(***************************************************************************)
(* The calls of cleanup_empty_dirs that are explored: every tree made of   *)
(* t/, t/x/, t/x/y/, t/x/z/ and t/sub/ that holds t/, each directory with  *)
(* or without a file in it, at most one directory whose rmdir is refused.  *)
(***************************************************************************)
MaxPruneRoots == 2

Dx == Join(Dt, <<"x">>)
Dxy == Join(Dx, <<"y">>)
Dxz == Join(Dx, <<"z">>)
PruneDirs == {Dt, Dx, Dxy, Dxz, DSub}
FileIn(d) == Join(d, <<"a", ".tmp">>)

PrnLayout(dirs, withFile, locked) ==
    [p \in dirs \cup {FileIn(d) : d \in withFile} |->
        IF p \in dirs
        THEN [DirEntry EXCEPT !.rm = IF p \in locked THEN "perm" ELSE "ok"]
        ELSE FileEntry(current_time, 1, "ok", "ok")]

PrnTrees == {D \in SUBSET PruneDirs : Dt \in D /\ \A d \in D \ {Dt} : Parent(d) \in D}

PrnLayouts ==
    UNION {{PrnLayout(dirs, withFile, locked) :
               withFile \in SUBSET dirs, locked \in {{}, {Dxy}, {Dx}}} :
           dirs \in PrnTrees}

PrnRoots == {Dt, Dx, FileIn(Dt), Gone}
PrnPathLists == UNION {[1..n -> PrnRoots] : n \in 1..MaxPruneRoots}

InitPrune ==
    /\ fs \in PrnLayouts
    /\ fs0 = fs
    /\ entry = "cleanup_empty_dirs"
    /\ prn \in [pc : {"roots"}, paths : PrnPathLists, dry_run : BOOLEAN, i : {1},
                queue : {<<>>}, deleted_count : {0}, removed : {<<>>}]
    /\ sel = Idle
    /\ del = Idle
    /\ mn = Idle

SpecPrune == InitPrune /\ [][NextPrune]_vars

(***************************************************************************)
(* Claims about cleanup_empty_dirs                                         *)
(***************************************************************************)
PrnDone == entry = "cleanup_empty_dirs" /\ prn.pc = "done"
Dirs0 == {p \in DOMAIN fs0 : fs0[p].kind = "dir"}
\* d's whole subtree held no file at the call
FileFree0(d) == \A p \in DOMAIN fs0 : IsPrefix(d, p) => fs0[p].kind = "dir"
StrictlyBelow(p, r) == IsPrefix(r, p) /\ p # r
NoRmdirRefused == \A d \in Dirs0 : fs0[d].rm = "ok"

\* C7: a live call on one root directory, with no removal failure, removes exactly
\* the directories strictly below the root whose whole subtree holds no file, in
\* one pass, and returns their number; the root stays.
C7_PrunesFileFreeSubtrees ==
    (PrnDone /\ ~prn.dry_run /\ NoRmdirRefused
       /\ Len(prn.paths) = 1 /\ prn.paths[1] \in Dirs0)
        => /\ Gone0 = {d \in Dirs0 : StrictlyBelow(d, prn.paths[1]) /\ FileFree0(d)}
           /\ prn.deleted_count = Cardinality(Gone0)
           /\ prn.paths[1] \in DOMAIN fs

\* one non-empty leaf: the directories from the root to that leaf are what is left,
\* a parent emptied by the removal of its child is removed in the same pass
C7_Witness ==
    /\ PrnDone /\ ~prn.dry_run /\ NoRmdirRefused
    /\ prn.paths = <<Dt>>
    /\ Dirs0 = PruneDirs
    /\ DOMAIN fs0 \ Dirs0 = {FileIn(Dxy)}
    /\ {p \in DOMAIN fs : fs[p].kind = "dir"} = {Dt, Dx, Dxy}
    /\ prn.deleted_count = 2

\* every leaf is empty: every subdirectory goes, the root stays
C7_AllEmptyWitness ==
    /\ PrnDone /\ ~prn.dry_run /\ NoRmdirRefused
    /\ prn.paths = <<Dt>>
    /\ DOMAIN fs0 = PruneDirs
    /\ DOMAIN fs = {Dt}
    /\ prn.deleted_count = 4

\* C8: no path of the roots list is ever removed, and no directory is removed
\* that has an entry.
C8_RootsNeverRemoved ==
    entry = "cleanup_empty_dirs" =>
        /\ \A p \in Range(prn.paths) : p \in DOMAIN fs0 => p \in DOMAIN fs
        /\ \A d \in Gone0 : FileFree0(d)

\* C8 for the roots that do not lie below another root of the list.
C8_OutermostRootsKept ==
    entry = "cleanup_empty_dirs" =>
        \A p \in Range(prn.paths) :
            (p \in DOMAIN fs0 /\ ~\E r \in Range(prn.paths) : StrictlyBelow(p, r))
                => p \in DOMAIN fs

\* C8, the directories with entries: what a step removes has no entry then.
C8_OnlyEmptyRemoved ==
    [][entry = "cleanup_empty_dirs" =>
          \A d \in DOMAIN fs \ DOMAIN fs' : Entries(fs, d) = {}]_vars

\* C4, cleanup_empty_dirs: in dry-run mode the filesystem never changes and the
\* counter stays 0.
C4_PruneDryRun ==
    (entry = "cleanup_empty_dirs" /\ prn.dry_run)
        => fs = fs0 /\ prn.deleted_count = 0

(***************************************************************************)
(* main                                                                    *)
(***************************************************************************)
Home == << <<"home">> >>
TmpDir == << <<"tmp">> >>
VarDir == << <<"var">> >>
VarTmp == Join(VarDir, <<"tmp">>)
VarLog == Join(VarDir, <<"log">>)
CacheDir == Join(Home, <<".cache">>)
Downloads == Join(Home, <<"Downloads">>)
Thumbnails == Join(CacheDir, <<"thumbnails">>)
Mozilla == Join(CacheDir, <<"mozilla">>)
Chrome == Join(CacheDir, <<"google-chrome">>)

\* lines 32-47
DEFAULT_CLEANUP_PATHS ==
    [temp_files |-> <<TmpDir, VarTmp, CacheDir, Downloads>>,
     log_files |-> <<VarLog>>,
     cache_files |-> <<Thumbnails, Mozilla, Chrome>>]

\* lines 50-54
TARGET_EXTENSIONS ==
    [temp |-> << <<".tmp">>, <<".temp">>, <<".swp">>, <<".bak">>, <<".old">> >>,
     logs |-> << <<".log">>, <<".log", ".1">>, <<".log", ".gz">> >>,
     cache |-> << <<".cache">> >>]

Categories == {"temp_files", "log_files", "cache_files"}

\* A Python value held in cleanup_paths: a dict (keys says which categories it
\* has, table what they map to) or a list.
DictValue(keys, table) == [type |-> "dict", keys |-> keys, table |-> table]
ListValue == [type |-> "list", keys |-> {}, table |-> DEFAULT_CLEANUP_PATHS]
DefaultTable == DictValue(Categories, DEFAULT_CLEANUP_PATHS)

\* cleanup_paths[key] (lines 309, 321, 333, 345): the list, or the exception
CanLookup(cp, key) == cp.type = "dict" /\ key \in cp.keys
Lookup(cp, key) == cp.table[key]

\* lines 288-297.  config is the --config argument and the file it names:
\* given (the option is there), exists (os.path.exists), json (what json.load
\* makes of the file: "garbled" raises JSONDecodeError, "undecodable" raises
\* UnicodeDecodeError, "array" is a JSON value that is no object, so that its .get
\* raises AttributeError, "object" is a JSON object), value (custom_config.get(
\* 'cleanup_paths', DEFAULT_CLEANUP_PATHS) of the object).
ConfigRaises(config) ==
    config.given /\ config.exists /\ config.json \in {"array", "undecodable"}

LoadedPaths(config) ==
    IF config.given /\ config.exists /\ config.json = "object"
    THEN config.value
    ELSE DefaultTable

\* lines 308-316, 320-328, 332-340: one category
ProcessCategory(F, paths, age, extensions, dry_run) ==
    cleanup_files(F, get_files_to_delete(F, paths, age, extensions, {}), dry_run)

MainProcess(key, ext, next) ==
    /\ mn.pc = key
    /\ CanLookup(mn.cleanup_paths, key)
    /\ LET r == ProcessCategory(fs, Lookup(mn.cleanup_paths, key), mn.age,
                                TARGET_EXTENSIONS[ext], mn.dry_run)
       IN  /\ fs' = r.fs
           /\ mn' = [mn EXCEPT !.pc = next,
                               !.total_files_deleted = @ + r.deleted_count,
                               !.total_size_freed = @ + r.total_size_freed]
    /\ UNCHANGED <<fs0, entry, sel, del, prn>>

\* lines 288-297
MainLoadConfig ==
    /\ mn.pc = "config"
    /\ ~ConfigRaises(mn.config)
    /\ mn' = [mn EXCEPT !.pc = "temp_files", !.cleanup_paths = LoadedPaths(mn.config)]
    /\ UNCHANGED <<fs, fs0, entry, sel, del, prn>>

\* line 293 or 294 raises an exception that line 296 does not catch, line 378
\* catches, line 380 exits
MainConfigRaises ==
    /\ mn.pc = "config"
    /\ ConfigRaises(mn.config)
    /\ mn' = [mn EXCEPT !.pc = "exit", !.exit_code = 1]
    /\ UNCHANGED <<fs, fs0, entry, sel, del, prn>>

\* lines 306-316
MainProcessTemp == MainProcess("temp_files", "temp", "log_files")
\* lines 318-328
MainProcessLogs == MainProcess("log_files", "logs", "cache_files")
\* lines 330-340
MainProcessCache == MainProcess("cache_files", "cache", "prune")

\* lines 342-347
MainPrune ==
    /\ mn.pc = "prune"
    /\ CanLookup(mn.cleanup_paths, "temp_files")
    /\ CanLookup(mn.cleanup_paths, "cache_files")
    /\ LET r == cleanup_empty_dirs(fs, Lookup(mn.cleanup_paths, "temp_files")
                                       \o Lookup(mn.cleanup_paths, "cache_files"),
                                   mn.dry_run)
       IN  /\ fs' = r.fs
           /\ mn' = [mn EXCEPT !.pc = "report", !.dirs_deleted = r.deleted_count]
    /\ UNCHANGED <<fs0, entry, sel, del, prn>>

\* line 309, 321 or 333 raises KeyError or TypeError, line 378 catches, line 380 exits
MainLookupRaises ==
    /\ mn.pc \in Categories
    /\ ~CanLookup(mn.cleanup_paths, mn.pc)
    /\ mn' = [mn EXCEPT !.pc = "exit", !.exit_code = 1]
    /\ UNCHANGED <<fs, fs0, entry, sel, del, prn>>

\* lines 349-369, then the normal end of the program
MainFinish ==
    /\ mn.pc = "report"
    /\ mn' = [mn EXCEPT !.pc = "exit", !.exit_code = 0]
    /\ UNCHANGED <<fs, fs0, entry, sel, del, prn>>

NextMain ==
    \/ MainLoadConfig \/ MainConfigRaises \/ MainProcessTemp \/ MainProcessLogs
    \/ MainProcessCache \/ MainPrune \/ MainLookupRaises \/ MainFinish

(***************************************************************************)
(* The runs of main that are explored: /tmp with a.tmp and the directory   *)
(* x/ with k.bak, /var/log with e.log, ~/.cache with thumbnails/ and       *)
(* f.cache in it; every file absent or with a modification time around the *)
(* threshold; every kind of --config file.                                 *)
(***************************************************************************)
TmpA == Join(TmpDir, <<"a", ".tmp">>)
TmpX == Join(TmpDir, <<"x">>)
TmpXK == Join(TmpX, <<"k", ".bak">>)
LogE == Join(VarLog, <<"e", ".log">>)
ThumbF == Join(Thumbnails, <<"f", ".cache">>)

MainFiles == {TmpA, TmpXK, LogE, ThumbF}
MainSizes == (TmpA :> 1) @@ (TmpXK :> 2) @@ (LogE :> 3) @@ (ThumbF :> 4)

\* present: the files and optional directories that are there; m: their
\* modification times
MainLayout(present, m) ==
    LET dirs == {TmpDir, TmpX, VarDir, VarLog, Home, CacheDir}
                    \cup (present \cap {Thumbnails})
    IN  [p \in dirs \cup (present \cap MainFiles) |->
            IF p \in dirs THEN DirEntry ELSE FileEntry(m[p], MainSizes[p], "ok", "ok")]

MainMTimes == {current_time - DefaultAge * Day - 1, current_time - DefaultAge * Day}

MainLayouts ==
    {MainLayout(present, m) :
        present \in {P \in SUBSET (MainFiles \cup {Thumbnails}) :
                        ThumbF \in P => Thumbnails \in P},
        m \in [MainFiles -> MainMTimes]}

CustomTable ==
    [temp_files |-> <<TmpX, TmpA>>, log_files |-> <<>>, cache_files |-> <<CacheDir>>]

NoConfig == [given |-> FALSE, exists |-> FALSE, json |-> "object", value |-> DefaultTable]
ConfigFile(json, value) == [given |-> TRUE, exists |-> TRUE, json |-> json, value |-> value]

MainConfigs ==
    {NoConfig,
     [given |-> TRUE, exists |-> FALSE, json |-> "object", value |-> DefaultTable],
     ConfigFile("garbled", DefaultTable),
     ConfigFile("undecodable", DefaultTable),
     ConfigFile("array", DefaultTable),
     ConfigFile("object", DefaultTable),
     ConfigFile("object", DictValue(Categories, CustomTable)),
     ConfigFile("object", DictValue({"temp_files", "cache_files"}, CustomTable)),
     ConfigFile("object", DictValue({}, CustomTable)),
     ConfigFile("object", ListValue)}

InitMain ==
    /\ fs \in MainLayouts
    /\ fs0 = fs
    /\ entry = "main"
    /\ mn \in [pc : {"config"}, config : MainConfigs, dry_run : BOOLEAN,
               age : {DefaultAge}, cleanup_paths : {DefaultTable},
               total_files_deleted : {0}, total_size_freed : {0},
               dirs_deleted : {0}, exit_code : {-1}]
    /\ sel = Idle
    /\ del = Idle
    /\ prn = Idle

SpecMain == InitMain /\ [][NextMain]_vars

(***************************************************************************)
(* Claims about main                                                       *)
(***************************************************************************)
MainExited == entry = "main" /\ mn.pc = "exit"

\* the --config file is there and is no JSON object whose cleanup_paths maps the
\* three categories to lists
Malformed(config) ==
    /\ config.given /\ config.exists
    /\ \/ config.json # "object"
       \/ config.value.type # "dict"
       \/ config.value.keys # Categories

\* C9: with a malformed --config file main falls back to the default table for
\* the three categories and runs to its normal end, exit code 0.
C9_MalformedConfigFallsBack ==
    (MainExited /\ Malformed(mn.config))
        => mn.exit_code = 0 /\ mn.cleanup_paths = DefaultTable

\* C9 for a file that json.load rejects with JSONDecodeError.
C9_GarbledConfigFallsBack ==
    (MainExited /\ mn.config.given /\ mn.config.exists /\ mn.config.json = "garbled")
        => mn.exit_code = 0 /\ mn.cleanup_paths = DefaultTable

\* C4, main: a run with --dry-run never changes the filesystem and counts nothing.
C4_MainDryRun ==
    (entry = "main" /\ mn.dry_run)
        => /\ fs = fs0
           /\ mn.total_files_deleted = 0 /\ mn.total_size_freed = 0
           /\ mn.dirs_deleted = 0

(***************************************************************************)
(* Deletion and pruning, called directly and from main                     *)
(***************************************************************************)
InitCleanup == InitDelete \/ InitPrune \/ InitMain
NextCleanup == NextDelete \/ NextPrune \/ NextMain
SpecCleanup == InitCleanup /\ [][NextCleanup]_vars

\* C4: in dry-run mode nothing is ever removed: cleanup_files leaves every file
\* and size as it was and returns (0, 0), cleanup_empty_dirs leaves every directory
\* and returns 0, and a run of main with --dry-run ends with the filesystem it
\* started with.
C4_DryRunChangesNothing == C4_DeleteDryRun /\ C4_PruneDryRun /\ C4_MainDryRun

\* a dry run of main that previewed an old temporary file and an empty directory
C4_Witness ==
    /\ MainExited /\ mn.dry_run /\ mn.exit_code = 0
    /\ mn.cleanup_paths = DefaultTable
    /\ TmpA \in DOMAIN fs /\ IsOld(fs, TmpA, mn.age)
    /\ TmpXK \notin DOMAIN fs
    /\ cleanup_files(fs, <<TmpA>>, FALSE).deleted_count = 1
    /\ cleanup_empty_dirs(fs, <<TmpDir>>, FALSE).deleted_count = 1

====
